---- MODULE Spec2Model ----
(***************************************************************************)
(* Portfolio construction pipeline of the AI ROI & Roadmap Canvas Agent:   *)
(* use-case records -> ROICalculator -> PortfolioOptimizer (score,         *)
(* quadrant, greedy selection) -> RoadmapGenerator (horizon, dates,        *)
(* milestones, rationale, dependency order).                               *)
(*                                                                         *)
(* Numbers.  The program computes in binary floating point; the model      *)
(* computes in fixed point over the integers:                              *)
(*   - input amounts (initial_cost, annual_cost, annual_benefit, budget,   *)
(*     three_year_cost, project_cost, total_cost) are whole thousands of   *)
(*     dollars (K$);                                                       *)
(*   - three_year_benefit, npv and risk_adjusted_value are in cents;       *)
(*   - basic_roi_percent is in hundredths of a percent (floor of the exact *)
(*     quotient, so comparing it with a whole-percent threshold is exact); *)
(*   - payback_months is in tenths of a month, INF standing for            *)
(*     float('inf');                                                       *)
(*   - priority_score is in hundredths of a point;                         *)
(*   - dates are day offsets from the generator's start_date.              *)
(* round(x, n) is modelled as rounding the exact quotient half up.         *)
(***************************************************************************)
EXTENDS Integers, Sequences, FiniteSets, TLC

VARIABLES
    use_cases,          \* st.session_state.use_cases
    budget_constraint,  \* PortfolioOptimizer.budget_constraint (None or K$)
    max_projects,       \* PortfolioOptimizer.max_projects (None or a count)
    min_roi_threshold,  \* PortfolioOptimizer.min_roi_threshold (whole percent)
    roi_metrics,        \* st.session_state.roi_metrics
    portfolio_items,    \* the list optimize builds, sorts and annotates
    sel_i,              \* _apply_selection: index of the next item of the pass
    selected_count,     \* _apply_selection: selected_count
    total_cost,         \* _apply_selection: total_cost
    items,              \* generate_roadmap: the filtered, sorted local list
    rm_i,               \* generate_roadmap: index of the next item of the loop
    phase_slots,        \* generate_roadmap: phase_slots
    roadmap_items,      \* generate_roadmap: roadmap_items
    pc,                 \* position of the application in a run
    earlier_roadmap,    \* the list an earlier generate_roadmap call returned on
                        \* this portfolio, <<>> while there was none
    ordered,            \* the list get_dependencies_order returned
    agent,              \* st.session_state.agent, and whether its list of
                        \* captured use cases is the session's list object
    probe               \* one record taken through the pure functions

vars == <<use_cases, budget_constraint, max_projects, min_roi_threshold,
          roi_metrics, portfolio_items, sel_i, selected_count, total_cost,
          items, rm_i, phase_slots, roadmap_items, pc, earlier_roadmap, ordered,
          agent, probe>>

-----------------------------------------------------------------------------
(* Bounds of the model *)

MaxUseCases == 3

MaxSlot == 1

MaxSessionLen == 3

MaxCounter == 6

MaxOrderLen == 3

MaxHorizonSlot == 9

-----------------------------------------------------------------------------
(* Program constants *)

None == -1

INF == 1000000

ANALYSIS_YEARS == 3

Levels == {"Low", "Medium", "High"}

Q1 == "Q1 (0-3 months)"

YEAR_1 == "Year 1 (3-12 months)"

YEAR_3 == "3-Year (1-3 years)"

TimeHorizon == {Q1, YEAR_1, YEAR_3}

\* the multipliers of Low and High exchanged
RISK_MULTIPLIERS_swapped == [Low |-> 60, Medium |-> 80, High |-> 95]

\* RISK_MULTIPLIERS, in hundredths
RISK_MULTIPLIERS == [Low |-> 95, Medium |-> 80, High |-> 60]

\* 1 / (1 + monthly_rate) ** t for t = 0 .. 35, monthly_rate = 1.10 ** (1/12) - 1,
\* in units of 10^-5 (entry t + 1 is month t)
DiscountFactor ==
    << 100000, 99209, 98424, 97645, 96873, 96107, 95346, 94592, 93844,
       93101, 92365, 91634, 90909, 90190, 89476, 88769, 88066, 87370,
       86678, 85993, 85312, 84637, 83968, 83304, 82645, 81991, 81342,
       80699, 80060, 79427, 78799, 78175, 77557, 76943, 76334, 75731 >>

\* QUADRANTS: (impact, effort) -> (name, priority rank)
QUADRANTS ==
    [High   |-> [Low    |-> <<"Quick Wins", 1>>,
                 Medium |-> <<"Strategic Projects", 2>>,
                 High   |-> <<"Major Projects", 3>>],
     Medium |-> [Low    |-> <<"Easy Wins", 2>>,
                 Medium |-> <<"Balanced Projects", 3>>,
                 High   |-> <<"Resource Heavy", 4>>],
     Low    |-> [Low    |-> <<"Fill-ins", 3>>,
                 Medium |-> <<"Low Priority", 4>>,
                 High   |-> <<"Avoid", 5>>]]

\* WEIGHTS, in hundredths
WEIGHTS == [roi |-> 30, npv |-> 25, risk_adjusted |-> 20,
            payback |-> 15, strategic |-> 10]

-----------------------------------------------------------------------------
(* Arithmetic helpers *)

Min(a, b) == IF a <= b THEN a ELSE b

Max(a, b) == IF a >= b THEN a ELSE b

\* n / d rounded to the nearest integer, half up (d > 0)
Round(n, d) == (n \div d) + (IF 2 * (n % d) >= d THEN 1 ELSE 0)

\* a * n / d rounded to the nearest integer without forming a * n (d > 0)
MulDivRound(a, n, d) == (a \div d) * n + Round((a % d) * n, d)

-----------------------------------------------------------------------------
(* ROICalculator *)

\* benefit_start_month counted from 0
BenefitStart_late(uc) == uc.implementation_months + uc.benefit_start_month

\* benefit_start, the first month that carries the benefit
BenefitStart(uc) == uc.implementation_months + uc.benefit_start_month - 1

\* the initial cost entered in month 0 with the sign of a benefit
CashFlow12_inflow(uc, month) ==
    (IF month = 0 THEN 12 * uc.initial_cost ELSE 0)
    - uc.annual_cost
    + (IF month >= BenefitStart(uc) THEN uc.annual_benefit ELSE 0)

\* twelve times the cash flow of one month, in K$
CashFlow12(uc, month) ==
    (IF month = 0 THEN 0 - 12 * uc.initial_cost ELSE 0)
    - uc.annual_cost
    + (IF month >= BenefitStart(uc) THEN uc.annual_benefit ELSE 0)

RECURSIVE DiscountedSum(_, _)
\* sum over t = month .. 35 of 12 * flow(t) * DiscountFactor(t)
DiscountedSum(uc, month) ==
    IF month >= ANALYSIS_YEARS * 12 THEN 0
    ELSE CashFlow12(uc, month) * DiscountFactor[month + 1]
         + DiscountedSum(uc, month + 1)

\* round(npv, 2), in cents: K$ * 10^5 cents / (12 * 10^5)
calculate_npv(uc) == Round(DiscountedSum(uc, 0), 12)

\* (annual_benefit / 12) * benefit_months, in cents
calculate_total_benefit(uc) ==
    LET benefit_months == Max(0, ANALYSIS_YEARS * 12 - BenefitStart(uc))
    IN  (uc.annual_benefit * benefit_months * 100000) \div 12

\* the ratio of benefit to cost, the cost not taken off the benefit
calculate_basic_roi_gross(uc, total_cost_k) ==
    LET benefit_months == Max(0, ANALYSIS_YEARS * 12 - BenefitStart(uc))
    IN  IF total_cost_k = 0 THEN 0
        ELSE ((uc.annual_benefit * benefit_months) * 10000) \div (12 * total_cost_k)

\* ((total_benefit - total_cost) / total_cost) * 100, in hundredths of a percent;
\* total_benefit is (annual_benefit / 12) * benefit_months, total_cost in K$
calculate_basic_roi(uc, total_cost_k) ==
    LET benefit_months == Max(0, ANALYSIS_YEARS * 12 - BenefitStart(uc))
    IN  IF total_cost_k = 0 THEN 0
        ELSE ((uc.annual_benefit * benefit_months - 12 * total_cost_k) * 10000)
                 \div (12 * total_cost_k)

\* the delay of the first benefit taken as implementation_months alone
calculate_payback_period_nodelay(uc) ==
    IF uc.annual_benefit <= uc.annual_cost THEN INF
    ELSE LET net == uc.annual_benefit - uc.annual_cost
         IN  Round((uc.implementation_months * net + 12 * uc.initial_cost) * 10, net)

\* in tenths of a month
calculate_payback_period(uc) ==
    IF uc.annual_benefit <= uc.annual_cost THEN INF
    ELSE LET net == uc.annual_benefit - uc.annual_cost
         IN  Round((BenefitStart(uc) * net + 12 * uc.initial_cost) * 10, net)

calculate_risk_adjusted_value(base_value, risk_level) ==
    LET multiplier == IF risk_level \in DOMAIN RISK_MULTIPLIERS
                      THEN RISK_MULTIPLIERS[risk_level] ELSE 80
    IN  MulDivRound(base_value, multiplier, 100)

calculate_metrics(uc) ==
    LET three_year_cost == uc.initial_cost + uc.annual_cost * ANALYSIS_YEARS
        npv == calculate_npv(uc)
    IN  [use_case_id         |-> uc.id,
         basic_roi_percent   |-> calculate_basic_roi(uc, three_year_cost),
         npv                 |-> npv,
         payback_months      |-> calculate_payback_period(uc),
         risk_adjusted_value |-> calculate_risk_adjusted_value(npv, uc.risk_level),
         three_year_benefit  |-> calculate_total_benefit(uc),
         three_year_cost     |-> three_year_cost,
         annual_net_benefit  |-> uc.annual_benefit - uc.annual_cost]

calculate_batch(ucs) == [i \in 1 .. Len(ucs) |-> calculate_metrics(ucs[i])]

-----------------------------------------------------------------------------
(* PortfolioOptimizer *)

\* the lookup answering with the ranks of the class docstring (Major Projects 2)
get_quadrant_docstring(impact, effort) ==
    IF impact = "High" /\ effort = "High" THEN <<"Major Projects", 2>>
    ELSE IF impact \in DOMAIN QUADRANTS /\ effort \in DOMAIN QUADRANTS[impact]
    THEN QUADRANTS[impact][effort]
    ELSE <<"Unknown", 3>>

\* QUADRANTS.get((impact, effort), ("Unknown", 3, ...))
get_quadrant(impact, effort) ==
    IF impact \in DOMAIN QUADRANTS /\ effort \in DOMAIN QUADRANTS[impact]
    THEN QUADRANTS[impact][effort]
    ELSE <<"Unknown", 3>>

\* the five sub-scores, each on the 0-100 scale in units of 10^-4 point
SubScores(uc, metrics) ==
    [roi |-> Min(metrics.basic_roi_percent, 50000) * 20,
     npv |-> Min(Max(metrics.npv, 0), 500000000) \div 500,
     risk_adjusted |-> Min(Max(metrics.risk_adjusted_value, 0), 500000000) \div 500,
     payback |-> IF metrics.payback_months = INF THEN 0
                 ELSE (Max(0, 360 - metrics.payback_months) * 25000) \div 9,
     strategic |-> (6 - get_quadrant(uc.impact_level, uc.effort_level)[2]) * 200000]

\* round(sum(scores[key] * WEIGHTS[key]), 2), in hundredths of a point
calculate_priority_score(uc, metrics) ==
    LET scores == SubScores(uc, metrics)
        total_score == scores.roi * WEIGHTS.roi
                       + scores.npv * WEIGHTS.npv
                       + scores.risk_adjusted * WEIGHTS.risk_adjusted
                       + scores.payback * WEIGHTS.payback
                       + scores.strategic * WEIGHTS.strategic
    IN  Round(total_score, 10000)

\* metrics_map = {m.use_case_id: m for m in metrics}: the last entry of an id wins
HasMetrics(metrics, id) == \E i \in 1 .. Len(metrics) : metrics[i].use_case_id = id

metrics_map_get(metrics, id) ==
    LET last == CHOOSE i \in 1 .. Len(metrics) :
                    /\ metrics[i].use_case_id = id
                    /\ \A j \in (i + 1) .. Len(metrics) : metrics[j].use_case_id # id
    IN  metrics[last]

\* input_index is a history field of the model: the position of the use case in
\* the list optimize was given
NewPortfolioItem(uc, metrics, i) ==
    [use_case            |-> uc,
     roi_metrics         |-> metrics,
     priority_score      |-> calculate_priority_score(uc, metrics),
     quadrant            |-> get_quadrant(uc.impact_level, uc.effort_level)[1],
     selected            |-> FALSE,
     selection_rationale |-> "",
     input_index         |-> i]

RECURSIVE BuildPortfolioItems(_, _, _)
BuildPortfolioItems(ucs, metrics, i) ==
    IF i > Len(ucs) THEN <<>>
    ELSE IF ~HasMetrics(metrics, ucs[i].id)
         THEN BuildPortfolioItems(ucs, metrics, i + 1)
         ELSE <<NewPortfolioItem(ucs[i], metrics_map_get(metrics, ucs[i].id), i)>>
              \o BuildPortfolioItems(ucs, metrics, i + 1)

\* x placed in front of the elements of equal score: a sort that is not stable
InsertByScore_unstable(sorted, x) ==
    LET before == {j \in 1 .. Len(sorted) : sorted[j].priority_score > x.priority_score}
        n == Cardinality(before)
    IN  SubSeq(sorted, 1, n) \o <<x>> \o SubSeq(sorted, n + 1, Len(sorted))

\* x placed behind every element of the sorted list whose score is not smaller
InsertByScore(sorted, x) ==
    LET before == {j \in 1 .. Len(sorted) : sorted[j].priority_score >= x.priority_score}
        n == Cardinality(before)
    IN  SubSeq(sorted, 1, n) \o <<x>> \o SubSeq(sorted, n + 1, Len(sorted))

RECURSIVE SortByScoreDesc(_)
\* list.sort / sorted(key = priority_score, reverse = True): stable
SortByScoreDesc(seq) ==
    IF seq = <<>> THEN <<>>
    ELSE InsertByScore(SortByScoreDesc(SubSeq(seq, 1, Len(seq) - 1)), seq[Len(seq)])

\* Python truth value of an Optional number: None and 0 are false
Truthy(x) == x # None /\ x # 0

ProjectCost(item) == item.use_case.initial_cost + item.use_case.annual_cost * 3

\* the threshold test with <= for <
BelowRoiThreshold_inclusive(item) ==
    item.roi_metrics.basic_roi_percent <= min_roi_threshold * 100

BelowRoiThreshold(item) ==
    item.roi_metrics.basic_roi_percent < min_roi_threshold * 100

ExceedsBudget(item) ==
    Truthy(budget_constraint) /\ total_cost + ProjectCost(item) > budget_constraint

ExceedsMaxProjects ==
    Truthy(max_projects) /\ selected_count >= max_projects

RoiRationale == "ROI below threshold"

\* the budget rejection reported under the text of the count rejection
BudgetRationale_count == "Exceeds max project limit"

BudgetRationale == "Exceeds budget constraint"

CountRationale == "Exceeds max project limit"

SelectedRationale == "Selected"

-----------------------------------------------------------------------------
(* RoadmapGenerator *)

\* the quick-win test with > for >= on the score
determine_horizon_strict(item, slots) ==
    LET uc == item.use_case
        impl_months == uc.implementation_months
    IN  IF uc.effort_level = "Low" /\ impl_months <= 3 /\ item.priority_score > 5000
        THEN Q1
        ELSE IF uc.effort_level = "High" \/ impl_months > 12
        THEN YEAR_3
        ELSE IF uc.effort_level = "Medium"
        THEN (IF item.priority_score >= 4000 THEN YEAR_1 ELSE YEAR_3)
        ELSE YEAR_1

\* the slots parameter is received and not read
determine_horizon(item, slots) ==
    LET uc == item.use_case
        impl_months == uc.implementation_months
    IN  IF uc.effort_level = "Low" /\ impl_months <= 3 /\ item.priority_score >= 5000
        THEN Q1
        ELSE IF uc.effort_level = "High" \/ impl_months > 12
        THEN YEAR_3
        ELSE IF uc.effort_level = "Medium"
        THEN (IF item.priority_score >= 4000 THEN YEAR_1 ELSE YEAR_3)
        ELSE IF uc.effort_level = "Low"
        THEN YEAR_1
        ELSE YEAR_1

\* Year 1 staggered by 30 days, as Q1 is
StartOffset_month(horizon, slot_num) ==
    IF horizon = Q1 THEN slot_num * 30
    ELSE IF horizon = YEAR_1 THEN 90 + slot_num * 30
    ELSE 365 + slot_num * 90

StartOffset(horizon, slot_num) ==
    IF horizon = Q1 THEN slot_num * 30
    ELSE IF horizon = YEAR_1 THEN 90 + slot_num * 45
    ELSE 365 + slot_num * 90

\* <<start, end>> as day offsets from start_date
calculate_dates(item, horizon, slots) ==
    LET impl_months == item.use_case.implementation_months
        start == StartOffset(horizon, slots[horizon])
    IN  <<start, start + impl_months * 30>>

\* the integration milestone under > for >=
generate_milestones_strict(item, horizon) ==
    LET impl_months == item.use_case.implementation_months
    IN  <<"Project Kickoff">>
        \o (IF impl_months >= 2 THEN <<"Requirements Complete">> ELSE <<>>)
        \o (IF impl_months >= 3 THEN <<"Design & Architecture Complete">> ELSE <<>>)
        \o (IF impl_months >= 4 THEN <<"Development Phase Complete">> ELSE <<>>)
        \o (IF impl_months > 6 THEN <<"Integration Testing Complete">> ELSE <<>>)
        \o <<"UAT & Validation", "Production Deployment", "Benefits Realization Review">>

generate_milestones(item, horizon) ==
    LET impl_months == item.use_case.implementation_months
    IN  <<"Project Kickoff">>
        \o (IF impl_months >= 2 THEN <<"Requirements Complete">> ELSE <<>>)
        \o (IF impl_months >= 3 THEN <<"Design & Architecture Complete">> ELSE <<>>)
        \o (IF impl_months >= 4 THEN <<"Development Phase Complete">> ELSE <<>>)
        \o (IF impl_months >= 6 THEN <<"Integration Testing Complete">> ELSE <<>>)
        \o <<"UAT & Validation", "Production Deployment", "Benefits Realization Review">>

\* the sentence as its lead and the values formatted into it; the score is
\* formatted to one decimal (tenths of a point), a value not in the sentence is
\* left at "" or 0
get_phase_rationale(item, horizon) ==
    LET uc == item.use_case
    IN  IF horizon = Q1
        THEN [lead |-> "Quick Win", effort |-> uc.effort_level,
              impact |-> uc.impact_level, months |-> uc.implementation_months,
              score |-> 0]
        ELSE IF horizon = YEAR_1
        THEN [lead |-> "Strategic Initiative", effort |-> uc.effort_level,
              impact |-> "", months |-> 0, score |-> Round(item.priority_score, 10)]
        ELSE [lead |-> "Transformational Project", effort |-> uc.effort_level,
              impact |-> "", months |-> uc.implementation_months, score |-> 0]

NewRoadmapItem(item, slots) ==
    LET horizon == determine_horizon(item, slots)
        dates == calculate_dates(item, horizon, slots)
    IN  [use_case     |-> item.use_case,
         roi_metrics  |-> item.roi_metrics,
         time_horizon |-> horizon,
         start_date   |-> dates[1],
         end_date     |-> dates[2],
         milestones   |-> generate_milestones(item, horizon),
         phase_rationale |-> get_phase_rationale(item, horizon)]

RECURSIVE SumSeq(_)
\* sum(...) over a list of numbers
SumSeq(nums) == IF nums = <<>> THEN 0 ELSE nums[1] + SumSeq(Tail(nums))

Investments(its) ==
    [k \in 1 .. Len(its) |-> its[k].use_case.initial_cost + its[k].use_case.annual_cost * 3]

\* the investment of one year of running cost
Investments_yearly(its) ==
    [k \in 1 .. Len(its) |-> its[k].use_case.initial_cost + its[k].use_case.annual_cost]

Npvs(its) == [k \in 1 .. Len(its) |-> its[k].roi_metrics.npv]

Names(its) == [k \in 1 .. Len(its) |-> its[k].use_case.name]

get_roadmap_by_horizon(its) ==
    [h \in TimeHorizon |-> SelectSeq(its, LAMBDA i : i.time_horizon = h)]

\* the summary whose investment counts one year of running cost
get_roadmap_summary_yearly(its) ==
    LET grouped == get_roadmap_by_horizon(its)
    IN  [h \in TimeHorizon |->
            IF grouped[h] # <<>>
            THEN [count            |-> Len(grouped[h]),
                  total_investment |-> SumSeq(Investments_yearly(grouped[h])),
                  total_npv        |-> SumSeq(Npvs(grouped[h])),
                  projects         |-> Names(grouped[h])]
            ELSE [count |-> 0, total_investment |-> 0, total_npv |-> 0,
                  projects |-> <<>>]]

get_roadmap_summary(its) ==
    LET grouped == get_roadmap_by_horizon(its)
    IN  [h \in TimeHorizon |->
            IF grouped[h] # <<>>
            THEN [count            |-> Len(grouped[h]),
                  total_investment |-> SumSeq(Investments(grouped[h])),
                  total_npv        |-> SumSeq(Npvs(grouped[h])),
                  projects         |-> Names(grouped[h])]
            ELSE [count |-> 0, total_investment |-> 0, total_npv |-> 0,
                  projects |-> <<>>]]

\* name_to_item[name]: of the items of one name the dict keeps the last
NameToItem(its, name) ==
    CHOOSE j \in 1 .. Len(its) :
        /\ its[j].use_case.name = name
        /\ \A k \in 1 .. Len(its) : its[k].use_case.name = name => k <= j

InNameToItem(its, name) == \E j \in 1 .. Len(its) : its[j].use_case.name = name

RECURSIVE Process(_, _, _, _)
RECURSIVE ProcessDependencies(_, _, _, _, _)
\* process(item) on the item at position j, st the ordered list and the
\* processed set so far, active the positions whose call has not returned. A
\* call on an active position whose name is not processed repeats the calls
\* that led to it, without end: the recursion limit is hit and st.raised set.
Process(its, st, j, active) ==
    IF st.raised THEN st
    ELSE IF its[j].use_case.name \in st.processed THEN st
    ELSE IF j \in active THEN [st EXCEPT !.raised = TRUE]
    ELSE LET after == ProcessDependencies(its, st, j, 1, active \cup {j})
         IN  IF after.raised THEN after
             ELSE [ordered   |-> Append(after.ordered, its[j]),
                   processed |-> after.processed \cup {its[j].use_case.name},
                   raised    |-> FALSE]

\* the loop of process over item.use_case.dependencies, from the k-th name on
ProcessDependencies(its, st, j, k, active) ==
    LET dependencies == its[j].use_case.dependencies
    IN  IF st.raised \/ k > Len(dependencies) THEN st
        ELSE LET dep_name == dependencies[k]
             IN  IF InNameToItem(its, dep_name) /\ dep_name \notin st.processed
                 THEN ProcessDependencies(
                          its, Process(its, st, NameToItem(its, dep_name), active),
                          j, k + 1, active)
                 ELSE ProcessDependencies(its, st, j, k + 1, active)

RECURSIVE OrderFrom(_, _, _)
\* the loop of get_dependencies_order over items, from position j on
OrderFrom(its, st, j) ==
    IF st.raised \/ j > Len(its) THEN st
    ELSE OrderFrom(its, Process(its, st, j, {}), j + 1)

\* the list handed back as it came
get_dependencies_order_input(its) ==
    [ordered |-> its, processed |-> {}, raised |-> FALSE]

\* the list returned, or raised when the recursion does not end
get_dependencies_order(its) ==
    OrderFrom(its, [ordered |-> <<>>, processed |-> {}, raised |-> FALSE], 1)

\* selected_only disregarded: every portfolio item is scheduled
IsSelected_all(item) == TRUE

\* the filter of generate_roadmap under selected_only
IsSelected(item) == item.selected

\* get_selection_summary: the figures of the selected items; average_roi is
\* kept as the floor of the quotient
get_selection_summary(its) ==
    LET selected == SelectSeq(its, IsSelected)
    IN  IF selected = <<>>
        THEN [count |-> 0, total_investment |-> 0, total_npv |-> 0, average_roi |-> 0]
        ELSE [count            |-> Len(selected),
              total_investment |-> SumSeq(Investments(selected)),
              total_npv        |-> SumSeq(Npvs(selected)),
              average_roi      |->
                  SumSeq([k \in 1 .. Len(selected) |->
                             selected[k].roi_metrics.basic_roi_percent])
                  \div Len(selected)]

-----------------------------------------------------------------------------
(* Inputs *)

\* the form of a use case, the id left to the capture layer
Form(ic, ac, ab, months, start, effort, impact, risk) ==
    [initial_cost |-> ic, annual_cost |-> ac, annual_benefit |-> ab,
     implementation_months |-> months, benefit_start_month |-> start,
     effort_level |-> effort, impact_level |-> impact, risk_level |-> risk]

\* the form with the name and the dependencies typed into it
Named(form, name, dependencies) ==
    [name |-> name, dependencies |-> dependencies,
     initial_cost |-> form.initial_cost, annual_cost |-> form.annual_cost,
     annual_benefit |-> form.annual_benefit,
     implementation_months |-> form.implementation_months,
     benefit_start_month |-> form.benefit_start_month,
     effort_level |-> form.effort_level, impact_level |-> form.impact_level,
     risk_level |-> form.risk_level]

WithId(form, n) ==
    [id |-> n, name |-> form.name, dependencies |-> form.dependencies,
     initial_cost |-> form.initial_cost, annual_cost |-> form.annual_cost,
     annual_benefit |-> form.annual_benefit,
     implementation_months |-> form.implementation_months,
     benefit_start_month |-> form.benefit_start_month,
     effort_level |-> form.effort_level, impact_level |-> form.impact_level,
     risk_level |-> form.risk_level]

\* the use cases a session may capture: ROI 10%, ROI 50%, a quick win, a record
\* without benefit, the sample record of the documentation, a long project. The
\* quick win names the long project as a dependency, the long project the ROI
\* 50% record and that one the quick win; the sample record names a project
\* that is not in the session.
SessionForms ==
    { Named(Form(100,  0,  44,  6, 1, "Medium", "Medium", "Medium"), "A", <<>>),
      Named(Form(100,  0,  60,  6, 1, "Medium", "High",   "Low"), "B", <<"C">>),
      Named(Form( 50,  0, 400,  2, 1, "Low",    "High",   "Low"), "C", <<"F">>),
      Named(Form( 50, 10,   0,  3, 1, "High",   "Low",    "High"), "D", <<>>),
      Named(Form(150, 30, 400,  4, 1, "Medium", "High",   "Low"), "E",
            <<"IoT Sensor Deployment">>),
      Named(Form(100, 10, 120, 14, 1, "Low",    "Medium", "Medium"), "F", <<"B">>) }

BudgetChoices == {None, 0, 150, 300}

MaxProjectsChoices == {None, 0, 1, 2}

MinRoiChoices == {0, 20, 50}

\* the records taken through the pure functions
ProbeForms ==
    { Named(Form(ic, ac, ab, months, start, effort, impact, risk), "Probe", <<>>) :
        ic \in {0, 50, 150}, ac \in {0, 30}, ab \in {0, 30, 60, 400},
        months \in {1, 2, 3, 4, 5, 6, 13}, start \in {1, 36},
        effort \in Levels, impact \in Levels, risk \in Levels }

ProbeScores == {3999, 4000, 4999, 5000, 6000}

\* the values _get_quadrant is called with: the members of the enumerations and
\* a value outside them, as a record assigned to after validation may carry
QuadrantKeys == Levels \cup {"Critical"}

\* slot counters handed to _determine_horizon
SlotChoices ==
    {[h \in TimeHorizon |-> 0]}
    \cup {[h \in TimeHorizon |-> IF h = g THEN n ELSE 0] : g \in TimeHorizon, n \in 1 .. MaxSlot}

-----------------------------------------------------------------------------
(* The interview agent and the capture handlers. The session's use-case list  *)
(* and the agent's captured_use_cases are Python lists; after                  *)
(* st.session_state.use_cases = agent.get_captured_use_cases() they are one    *)
(* list object, which agent.shared records: an append to one is then an        *)
(* append to the other. An id "UC%03d" is held as its number.                  *)

\* InterviewAgent.__init__ (kind "real") and MockInterviewAgent.__init__
\* interaction_count is read by the mock agent only, for == 1, and
\* conversation_history, the length of the history the real agent starts with
\* its system prompt, only for < 3: both are kept up to these values
NewAgent(kind) ==
    [kind |-> kind, captured_use_cases |-> <<>>, use_case_counter |-> 0,
     interaction_count |-> 0,
     conversation_history |-> IF kind = "real" THEN 1 ELSE 0,
     shared |-> FALSE]

\* reset_all of either agent, after the sidebar gave the session a new list
reset_all(ag) ==
    [ag EXCEPT !.captured_use_cases = <<>>, !.use_case_counter = 0,
               !.interaction_count = 0,
               !.conversation_history = IF ag.kind = "real" THEN 1 ELSE 0,
               !.shared = FALSE]

\* the form handler: the record gets the id len(use_cases) + 1, is appended to
\* the session's list and handed to add_use_case_manually, which appends it to
\* the agent's list; the mock agent first counts and overwrites the record's id
manual_add(ucs, ag, form) ==
    LET id == IF ag.kind = "mock" THEN ag.use_case_counter + 1 ELSE Len(ucs) + 1
        counter == IF ag.kind = "mock" THEN ag.use_case_counter + 1
                   ELSE ag.use_case_counter
        uc == WithId(form, id)
    IN  IF ag.shared
        THEN [use_cases |-> ucs \o <<uc, uc>>,
              agent |-> [ag EXCEPT !.captured_use_cases = ucs \o <<uc, uc>>,
                                   !.use_case_counter = counter]]
        ELSE [use_cases |-> Append(ucs, uc),
              agent |-> [ag EXCEPT !.captured_use_cases = Append(@, uc),
                                   !.use_case_counter = counter]]

\* _add_sample_use_cases: the five records of the demonstration
Samples ==
    << WithId(Named(Form(150, 30, 400, 4, 1, "Medium", "High", "Low"),
                    "Customer Churn Prediction", <<>>), 1),
       WithId(Named(Form(200, 40, 500, 6, 1, "High", "High", "Medium"),
                    "Intelligent Document Processing", <<>>), 2),
       WithId(Named(Form(300, 50, 350, 9, 2, "High", "Medium", "Medium"),
                    "Predictive Maintenance", <<"IoT Sensor Deployment">>), 3),
       WithId(Named(Form(100, 25, 300, 3, 1, "Low", "High", "Low"),
                    "AI Customer Service Chatbot", <<>>), 4),
       WithId(Named(Form(180, 35, 450, 5, 1, "Medium", "High", "Low"),
                    "Demand Forecasting", <<>>), 5) >>

\* what the language model answers: plain text, a failed call, or a JSON block
\* that names a use case and leaves the other fields to the defaults of
\* _create_use_case_from_dict
ChatForms == {Named(Form(50, 10, 75, 6, 1, "Medium", "Medium", "Medium"), "Chat", <<>>)}

Replies ==
    {[kind |-> "text", data |-> <<>>], [kind |-> "error", data |-> <<>>]}
    \cup {[kind |-> "json", data |-> <<form>>] : form \in ChatForms}

Messages == {"plain", "sample"}

\* the form typed into the manual input tab in a session
ManualForms == {Named(Form(100, 0, 60, 6, 1, "Medium", "High", "Low"), "Manual", <<>>)}

\* the values the sidebar hands to the analysis: its defaults
SidebarBudgets == {1000}

SidebarMaxProjects == {5}

SidebarMinRoi == {20}

\* chat of either agent. The mock agent counts the interaction, answers the
\* first one with the welcome message and replaces its list by the samples on
\* a keyword; the real agent extends the history and appends the use case of
\* a JSON block under the next counter value.
chat(ag, message, reply) ==
    IF ag.kind = "mock"
    THEN LET counted == [ag EXCEPT !.interaction_count = Min(@ + 1, 2)]
         IN  IF ag.interaction_count = 0 THEN counted
             ELSE IF message = "sample"
             THEN [counted EXCEPT !.captured_use_cases = Samples,
                                  !.use_case_counter = 5]
             ELSE counted
    ELSE IF reply.kind = "error"
         THEN [ag EXCEPT !.conversation_history = Min(@ + 1, 3)]
         ELSE IF reply.kind = "text"
         THEN [ag EXCEPT !.conversation_history = Min(@ + 2, 3)]
         ELSE [ag EXCEPT !.conversation_history = Min(@ + 2, 3),
                         !.use_case_counter = @ + 1,
                         !.captured_use_cases =
                             Append(@, WithId(reply.data[1], ag.use_case_counter + 1))]

\* extract_use_case_from_conversation, <<>> standing for None: nothing from a
\* history of fewer than three entries or an answer that is no JSON, otherwise
\* a record under the next counter value that is not put on the agent's list
extract_use_case_from_conversation(ag, reply) ==
    IF ag.conversation_history < 3 \/ reply.kind # "json"
    THEN [use_case |-> <<>>, agent |-> ag]
    ELSE [use_case |-> <<WithId(reply.data[1], ag.use_case_counter + 1)>>,
          agent |-> [ag EXCEPT !.use_case_counter = @ + 1]]

\* list.pop(i)
Pop(seq, i) == SubSeq(seq, 1, i - 1) \o SubSeq(seq, i + 1, Len(seq))

-----------------------------------------------------------------------------
(* The session: capture, then one run of analysis and roadmap *)

ProbeOff == [stage |-> "off"]

NoSlots == [h \in TimeHorizon |-> 0]

Init ==
    /\ use_cases = <<>>
    /\ budget_constraint = None
    /\ max_projects = None
    /\ min_roi_threshold = 0
    /\ roi_metrics = <<>>
    /\ portfolio_items = <<>>
    /\ sel_i = 1
    /\ selected_count = 0
    /\ total_cost = 0
    /\ items = <<>>
    /\ rm_i = 1
    /\ phase_slots = NoSlots
    /\ roadmap_items = <<>>
    /\ pc = "capture"
    /\ earlier_roadmap = <<>>
    /\ ordered = <<>>
    /\ agent = NewAgent("mock")
    /\ probe = ProbeOff

\* render_manual_input_tab: the submitted form is appended under the next id
\* and handed to the agent
AddUseCase(form) ==
    /\ pc = "capture"
    /\ Len(use_cases) < MaxUseCases
    /\ LET added == manual_add(use_cases, agent, form)
       IN  /\ use_cases' = added.use_cases
           /\ agent' = added.agent
    /\ UNCHANGED <<budget_constraint, max_projects, min_roi_threshold, roi_metrics,
                   portfolio_items, sel_i, selected_count, total_cost, items, rm_i,
                   phase_slots, roadmap_items, pc, earlier_roadmap, ordered,
                   probe>>

\* the use-case list sorted in place along with the items
Optimize_inplace(budget, maxp, min_roi) ==
    /\ pc = "capture"
    /\ Len(use_cases) >= 1
    /\ budget_constraint' = budget
    /\ max_projects' = maxp
    /\ min_roi_threshold' = min_roi
    /\ roi_metrics' = calculate_batch(use_cases)
    /\ portfolio_items' = SortByScoreDesc(BuildPortfolioItems(use_cases, roi_metrics', 1))
    /\ use_cases' = [i \in 1 .. Len(use_cases) |-> portfolio_items'[i].use_case]
    /\ sel_i' = 1
    /\ selected_count' = 0
    /\ total_cost' = 0
    /\ pc' = "select"
    /\ UNCHANGED <<items, rm_i, phase_slots, roadmap_items, earlier_roadmap, ordered,
                   agent, probe>>

\* render_analysis_tab up to the selection pass: calculate_batch, then optimize
\* builds the items, sorts them and enters _apply_selection
Optimize(budget, maxp, min_roi) ==
    /\ pc = "capture"
    /\ Len(use_cases) >= 1
    /\ budget_constraint' = budget
    /\ max_projects' = maxp
    /\ min_roi_threshold' = min_roi
    /\ roi_metrics' = calculate_batch(use_cases)
    /\ portfolio_items' = SortByScoreDesc(BuildPortfolioItems(use_cases, roi_metrics', 1))
    /\ sel_i' = 1
    /\ selected_count' = 0
    /\ total_cost' = 0
    /\ pc' = "select"
    /\ UNCHANGED <<use_cases, items, rm_i, phase_slots, roadmap_items, earlier_roadmap,
                   ordered, agent, probe>>

Annotate(its, i, sel, why) ==
    [its EXCEPT ![i].selected = sel, ![i].selection_rationale = why]

\* one iteration of the loop of _apply_selection
ApplySelectionStep ==
    /\ pc = "select"
    /\ sel_i <= Len(portfolio_items)
    /\ LET item == portfolio_items[sel_i]
       IN  IF BelowRoiThreshold(item)
           THEN /\ portfolio_items' = Annotate(portfolio_items, sel_i, FALSE, RoiRationale)
                /\ UNCHANGED <<selected_count, total_cost>>
           ELSE IF ExceedsBudget(item)
           THEN /\ portfolio_items' = Annotate(portfolio_items, sel_i, FALSE, BudgetRationale)
                /\ UNCHANGED <<selected_count, total_cost>>
           ELSE IF ExceedsMaxProjects
           THEN /\ portfolio_items' = Annotate(portfolio_items, sel_i, FALSE, CountRationale)
                /\ UNCHANGED <<selected_count, total_cost>>
           ELSE /\ portfolio_items' = Annotate(portfolio_items, sel_i, TRUE, SelectedRationale)
                /\ selected_count' = selected_count + 1
                /\ total_cost' = total_cost + ProjectCost(item)
    /\ sel_i' = sel_i + 1
    /\ UNCHANGED <<use_cases, budget_constraint, max_projects, min_roi_threshold,
                   roi_metrics, items, rm_i, phase_slots, roadmap_items, pc,
                   earlier_roadmap, ordered, agent, probe>>

\* _apply_selection and optimize return
ApplySelectionReturn ==
    /\ pc = "select"
    /\ sel_i > Len(portfolio_items)
    /\ pc' = "optimized"
    /\ UNCHANGED <<use_cases, budget_constraint, max_projects, min_roi_threshold,
                   roi_metrics, portfolio_items, sel_i, selected_count, total_cost,
                   items, rm_i, phase_slots, roadmap_items, earlier_roadmap, ordered,
                   agent, probe>>

\* the slot counters kept from the preceding call instead of starting at 0
GenerateRoadmap_carry ==
    /\ \/ pc = "optimized"
       \/ pc = "done" /\ earlier_roadmap = <<>>
    /\ portfolio_items # <<>>
    /\ items' = SortByScoreDesc(SelectSeq(portfolio_items, IsSelected))
    /\ rm_i' = 1
    /\ phase_slots' = phase_slots
    /\ roadmap_items' = <<>>
    /\ earlier_roadmap' = IF pc = "done" THEN <<roadmap_items>> ELSE earlier_roadmap
    /\ pc' = "roadmap"
    /\ UNCHANGED <<use_cases, budget_constraint, max_projects, min_roi_threshold,
                   roi_metrics, portfolio_items, sel_i, selected_count, total_cost,
                   ordered, agent, probe>>

\* render_roadmap_tab: generate_roadmap(portfolio_items, selected_only = True) up
\* to its loop, on a fresh generator of the same start_date. The tab is rendered
\* after the analysis and once again on the same portfolio; the list of the
\* first rendering is kept aside when the second begins.
GenerateRoadmap ==
    /\ \/ pc = "optimized"
       \/ pc = "done" /\ earlier_roadmap = <<>>
    /\ portfolio_items # <<>>
    /\ items' = SortByScoreDesc(SelectSeq(portfolio_items, IsSelected))
    /\ rm_i' = 1
    /\ phase_slots' = NoSlots
    /\ roadmap_items' = <<>>
    /\ earlier_roadmap' = IF pc = "done" THEN <<roadmap_items>> ELSE earlier_roadmap
    /\ pc' = "roadmap"
    /\ UNCHANGED <<use_cases, budget_constraint, max_projects, min_roi_threshold,
                   roi_metrics, portfolio_items, sel_i, selected_count, total_cost,
                   ordered, agent, probe>>

\* one iteration of the loop of generate_roadmap
RoadmapStep ==
    /\ pc = "roadmap"
    /\ rm_i <= Len(items)
    /\ LET roadmap_item == NewRoadmapItem(items[rm_i], phase_slots)
       IN  /\ roadmap_items' = Append(roadmap_items, roadmap_item)
           /\ phase_slots' = [phase_slots EXCEPT ![roadmap_item.time_horizon] = @ + 1]
    /\ rm_i' = rm_i + 1
    /\ UNCHANGED <<use_cases, budget_constraint, max_projects, min_roi_threshold,
                   roi_metrics, portfolio_items, sel_i, selected_count, total_cost,
                   items, pc, earlier_roadmap, ordered, agent, probe>>

\* generate_roadmap returns
RoadmapReturn ==
    /\ pc = "roadmap"
    /\ rm_i > Len(items)
    /\ pc' = "done"
    /\ UNCHANGED <<use_cases, budget_constraint, max_projects, min_roi_threshold,
                   roi_metrics, portfolio_items, sel_i, selected_count, total_cost,
                   items, rm_i, phase_slots, roadmap_items, earlier_roadmap, ordered,
                   agent, probe>>

\* get_dependencies_order(roadmap_items), called on the list generate_roadmap
\* returned
OrderDependencies ==
    /\ pc = "done"
    /\ LET result == get_dependencies_order(roadmap_items)
       IN  /\ ordered' = result.ordered
           /\ pc' = IF result.raised THEN "order_error" ELSE "ordered"
    /\ UNCHANGED <<use_cases, budget_constraint, max_projects, min_roi_threshold,
                   roi_metrics, portfolio_items, sel_i, selected_count, total_cost,
                   items, rm_i, phase_slots, roadmap_items, earlier_roadmap, agent, probe>>

\* render_sidebar, Reset All
ResetAll ==
    /\ pc \in {"capture", "done", "ordered", "order_error"}
    /\ use_cases # <<>>
    /\ use_cases' = <<>>
    /\ roi_metrics' = <<>>
    /\ portfolio_items' = <<>>
    /\ roadmap_items' = <<>>
    /\ budget_constraint' = None
    /\ max_projects' = None
    /\ min_roi_threshold' = 0
    /\ sel_i' = 1
    /\ selected_count' = 0
    /\ total_cost' = 0
    /\ items' = <<>>
    /\ rm_i' = 1
    /\ phase_slots' = NoSlots
    /\ pc' = "capture"
    /\ earlier_roadmap' = <<>>
    /\ ordered' = <<>>
    /\ agent' = reset_all(agent)
    /\ UNCHANGED probe

Next ==
    \/ \E form \in SessionForms : AddUseCase(form)
    \/ \E budget \in BudgetChoices, maxp \in MaxProjectsChoices, min_roi \in MinRoiChoices :
           Optimize(budget, maxp, min_roi)
    \/ ApplySelectionStep
    \/ ApplySelectionReturn
    \/ GenerateRoadmap
    \/ RoadmapStep
    \/ RoadmapReturn
    \/ OrderDependencies
    \/ ResetAll

Spec == Init /\ [][Next]_vars

-----------------------------------------------------------------------------
(* The session as the application runs it: every handler ends in a rerun of   *)
(* the script, which renders the analysis tab and then the roadmap tab. pc is *)
(* "done" while the application waits for the user, "capture" when a rerun    *)
(* has reached the analysis tab and "optimized" when it has reached the       *)
(* roadmap tab. The agent is the real one when an API key is configured.      *)

SessionInit ==
    /\ use_cases = <<>>
    /\ budget_constraint = None
    /\ max_projects = None
    /\ min_roi_threshold = 0
    /\ roi_metrics = <<>>
    /\ portfolio_items = <<>>
    /\ sel_i = 1
    /\ selected_count = 0
    /\ total_cost = 0
    /\ items = <<>>
    /\ rm_i = 1
    /\ phase_slots = NoSlots
    /\ roadmap_items = <<>>
    /\ pc = "done"
    /\ earlier_roadmap = <<>>
    /\ ordered = <<>>
    /\ agent \in {NewAgent("mock"), NewAgent("real")}
    /\ probe = ProbeOff

\* render_manual_input_tab, the form submitted
ManualAdd(form) ==
    /\ pc = "done"
    /\ Len(use_cases) < MaxSessionLen
    /\ Len(agent.captured_use_cases) < MaxSessionLen
    /\ agent.use_case_counter < MaxCounter
    /\ LET added == manual_add(use_cases, agent, form)
       IN  /\ use_cases' = added.use_cases
           /\ agent' = added.agent
    /\ pc' = "capture"
    /\ UNCHANGED <<budget_constraint, max_projects, min_roi_threshold, roi_metrics,
                   portfolio_items, sel_i, selected_count, total_cost, items, rm_i,
                   phase_slots, roadmap_items, earlier_roadmap, ordered, probe>>

\* render_manual_input_tab, the Remove button of entry i: pop on the session's
\* list, which is the agent's list too once the two are one object
Remove(i) ==
    /\ pc = "done"
    /\ i \in 1 .. Len(use_cases)
    /\ use_cases' = Pop(use_cases, i)
    /\ agent' = IF agent.shared
                THEN [agent EXCEPT !.captured_use_cases = Pop(use_cases, i)]
                ELSE agent
    /\ pc' = "capture"
    /\ UNCHANGED <<budget_constraint, max_projects, min_roi_threshold, roi_metrics,
                   portfolio_items, sel_i, selected_count, total_cost, items, rm_i,
                   phase_slots, roadmap_items, earlier_roadmap, ordered, probe>>

\* render_chat_tab, a chat message or the Load Sample Data button, which sends
\* a message with the keyword: the agent answers and the session takes the
\* agent's list as its own
Chat(message, reply) ==
    /\ pc = "done"
    /\ agent.kind = "real" /\ reply.kind = "json"
           => /\ Len(agent.captured_use_cases) < MaxSessionLen
              /\ agent.use_case_counter < MaxCounter
    /\ LET answered == chat(agent, message, reply)
       IN  /\ agent' = [answered EXCEPT !.shared = TRUE]
           /\ use_cases' = answered.captured_use_cases
    /\ pc' = "capture"
    /\ UNCHANGED <<budget_constraint, max_projects, min_roi_threshold, roi_metrics,
                   portfolio_items, sel_i, selected_count, total_cost, items, rm_i,
                   phase_slots, roadmap_items, earlier_roadmap, ordered, probe>>

\* render_chat_tab, the Extract from Chat button: only the real agent has the
\* method, and an extracted record is appended to the session's list
ExtractFromChat(reply) ==
    /\ pc = "done"
    /\ Len(use_cases) < MaxSessionLen
    /\ agent.use_case_counter < MaxCounter
    /\ IF agent.kind = "real"
       THEN LET extracted == extract_use_case_from_conversation(agent, reply)
                appended == use_cases \o extracted.use_case
            IN  /\ use_cases' = appended
                /\ agent' = IF agent.shared
                            THEN [extracted.agent EXCEPT !.captured_use_cases = appended]
                            ELSE extracted.agent
       ELSE UNCHANGED <<use_cases, agent>>
    /\ pc' = "capture"
    /\ UNCHANGED <<budget_constraint, max_projects, min_roi_threshold, roi_metrics,
                   portfolio_items, sel_i, selected_count, total_cost, items, rm_i,
                   phase_slots, roadmap_items, earlier_roadmap, ordered, probe>>

\* render_analysis_tab on an empty list: the warning and the early return
AnalysisTabEmpty ==
    /\ pc = "capture"
    /\ Len(use_cases) < 1
    /\ pc' = "optimized"
    /\ UNCHANGED <<use_cases, budget_constraint, max_projects, min_roi_threshold,
                   roi_metrics, portfolio_items, sel_i, selected_count, total_cost,
                   items, rm_i, phase_slots, roadmap_items, earlier_roadmap, ordered,
                   agent, probe>>

\* render_roadmap_tab without portfolio items: the warning and the early return
RoadmapTabEmpty ==
    /\ pc = "optimized"
    /\ portfolio_items = <<>>
    /\ pc' = "done"
    /\ UNCHANGED <<use_cases, budget_constraint, max_projects, min_roi_threshold,
                   roi_metrics, portfolio_items, sel_i, selected_count, total_cost,
                   items, rm_i, phase_slots, roadmap_items, earlier_roadmap, ordered,
                   agent, probe>>

SessionNext ==
    \/ \E form \in ManualForms : ManualAdd(form)
    \/ \E i \in 1 .. MaxSessionLen + 1 : Remove(i)
    \/ \E message \in Messages, reply \in Replies : Chat(message, reply)
    \/ \E reply \in Replies : ExtractFromChat(reply)
    \/ \E budget \in SidebarBudgets, maxp \in SidebarMaxProjects, min_roi \in SidebarMinRoi :
           Optimize(budget, maxp, min_roi)
    \/ AnalysisTabEmpty
    \/ ApplySelectionStep
    \/ ApplySelectionReturn
    \/ pc = "optimized" /\ GenerateRoadmap
    \/ RoadmapTabEmpty
    \/ RoadmapStep
    \/ RoadmapReturn
    \/ pc = "done" /\ ResetAll

SpecSession == SessionInit /\ [][SessionNext]_vars

-----------------------------------------------------------------------------
(* The pure functions, applied to one record: calculate_metrics, then          *)
(* _calculate_priority_score and _get_quadrant, then _determine_horizon and    *)
(* the body of the loop of generate_roadmap. These are applied to the scored   *)
(* item and to the same item carrying a score at the thresholds:               *)
(* generate_roadmap takes any list of PortfolioItem.                           *)

\* the lists get_dependencies_order is applied to: roadmap items that differ in
\* id, name and dependencies, among them lists with a name twice, with names
\* of no item, with an item that names itself and with cycles
OrderNames == {"A", "B", "C"}

OrderDependencyLists == {<<>>, <<"A">>, <<"B">>, <<"C">>, <<"Z">>, <<"C", "B">>}

BaseRoadmapItem ==
    LET uc == WithId(Named(Form(100, 0, 60, 6, 1, "Medium", "High", "Low"), "A", <<>>), 1)
    IN  NewRoadmapItem(NewPortfolioItem(uc, calculate_metrics(uc), 1), NoSlots)

\* the name and the dependencies list of every item of a list
OrderChoices ==
    UNION {[1 .. n -> OrderNames \X OrderDependencyLists] : n \in 0 .. MaxOrderLen}

OrderProbeList(choice) ==
    [k \in 1 .. Len(choice) |->
        [BaseRoadmapItem EXCEPT !.use_case.id = k,
                                !.roi_metrics.use_case_id = k,
                                !.use_case.name = choice[k][1],
                                !.use_case.dependencies = choice[k][2]]]

\* the items and slot counters _calculate_dates is applied to: the selected
\* items of the sample records, which fall into the three horizons, behind
\* 0 to MaxHorizonSlot entries in every horizon
DateProbeItems ==
    {[NewPortfolioItem(Samples[k], calculate_metrics(Samples[k]), k)
          EXCEPT !.selected = TRUE] : k \in 1 .. Len(Samples)}

DateSlotChoices == {[h \in TimeHorizon |-> n] : n \in 0 .. MaxHorizonSlot}

FnInit ==
    /\ use_cases = <<>>
    /\ budget_constraint = None
    /\ max_projects = None
    /\ min_roi_threshold = 0
    /\ roi_metrics = <<>>
    /\ portfolio_items = <<>>
    /\ sel_i = 1
    /\ selected_count = 0
    /\ total_cost = 0
    /\ items = <<>>
    /\ rm_i = 1
    /\ phase_slots = NoSlots
    /\ roadmap_items = <<>>
    /\ pc = "capture"
    /\ earlier_roadmap = <<>>
    /\ ordered = <<>>
    /\ agent = NewAgent("mock")
    /\ probe \in {[stage |-> "input", uc |-> WithId(f, 1)] : f \in ProbeForms}
                \cup {[stage |-> "key", impact |-> impact, effort |-> effort] :
                         impact \in QuadrantKeys, effort \in QuadrantKeys}
                \cup {[stage |-> "list", choice |-> choice] : choice \in OrderChoices}
                \cup {[stage |-> "slots", item |-> item, slots |-> slots] :
                         item \in DateProbeItems, slots \in DateSlotChoices}

session_vars == <<use_cases, budget_constraint, max_projects, min_roi_threshold,
                  roi_metrics, portfolio_items, sel_i, selected_count, total_cost,
                  items, rm_i, phase_slots, roadmap_items, pc, earlier_roadmap,
                  ordered, agent>>

ProbeMetrics ==
    /\ probe.stage = "input"
    /\ probe' = [stage |-> "metrics", uc |-> probe.uc,
                 metrics |-> calculate_metrics(probe.uc)]
    /\ UNCHANGED session_vars

ProbeScore ==
    /\ probe.stage = "metrics"
    /\ probe' = [stage |-> "scored", uc |-> probe.uc, metrics |-> probe.metrics,
                 score |-> calculate_priority_score(probe.uc, probe.metrics),
                 quadrant |-> get_quadrant(probe.uc.impact_level, probe.uc.effort_level)]
    /\ UNCHANGED session_vars

ProbeHorizon ==
    /\ probe.stage = "scored"
    /\ \E score \in ProbeScores \cup {probe.score}, slots \in SlotChoices :
          LET item == [NewPortfolioItem(probe.uc, probe.metrics, 1)
                           EXCEPT !.priority_score = score, !.selected = TRUE]
          IN  probe' = [stage |-> "placed", uc |-> probe.uc, metrics |-> probe.metrics,
                        score |-> score, quadrant |-> probe.quadrant, slots |-> slots,
                        horizon |-> determine_horizon(item, slots),
                        entry |-> NewRoadmapItem(item, slots)]
    /\ UNCHANGED session_vars

\* _get_quadrant called on a key
ProbeQuadrant ==
    /\ probe.stage = "key"
    /\ probe' = [stage |-> "quadrant", impact |-> probe.impact, effort |-> probe.effort,
                 quadrant |-> get_quadrant(probe.impact, probe.effort)]
    /\ UNCHANGED session_vars

\* get_dependencies_order(its)
ProbeOrder ==
    /\ probe.stage = "list"
    /\ LET its == OrderProbeList(probe.choice)
       IN  probe' = [stage |-> "sorted", its |-> its,
                     result |-> get_dependencies_order(its)]
    /\ UNCHANGED session_vars

\* the body of the loop of generate_roadmap on an item behind slots entries
ProbeDates ==
    /\ probe.stage = "slots"
    /\ probe' = [stage |-> "dated", item |-> probe.item, slots |-> probe.slots,
                 entry |-> NewRoadmapItem(probe.item, probe.slots)]
    /\ UNCHANGED session_vars

FnNext ==
    \/ ProbeMetrics
    \/ ProbeScore
    \/ ProbeHorizon
    \/ ProbeQuadrant
    \/ ProbeOrder
    \/ ProbeDates

SpecFn == FnInit /\ [][FnNext]_vars

-----------------------------------------------------------------------------
(* Properties *)

Decided(i) == i < sel_i

InSelection == pc \in {"select", "optimized", "roadmap", "done"}

AfterOptimize == pc \in {"optimized", "roadmap", "done"}

IsSet(x) == x # None

RECURSIVE SelectedCostBefore(_, _)
\* project_cost summed over the selected items in front of position i
SelectedCostBefore(its, i) ==
    IF i <= 1 THEN 0
    ELSE SelectedCostBefore(its, i - 1)
         + (IF its[i - 1].selected THEN ProjectCost(its[i - 1]) ELSE 0)

SelectedCountBefore(its, i) ==
    Cardinality({j \in 1 .. (i - 1) : its[j].selected})

RoiOf(item) == item.roi_metrics.basic_roi_percent

\* C1: whenever a budget is set (0 included), the running total of the pass and
\* the project_cost summed over the selected items are at most the budget, after
\* every step of the selection pass
C1_BudgetNeverExceeded ==
    (InSelection /\ IsSet(budget_constraint)) =>
        /\ total_cost <= budget_constraint
        /\ SelectedCostBefore(portfolio_items, Len(portfolio_items) + 1) <= budget_constraint

\* C2: whenever max_projects is set (0 included), at most max_projects items are
\* marked selected
C2_MaxProjectsNeverExceeded ==
    (InSelection /\ IsSet(max_projects)) =>
        SelectedCountBefore(portfolio_items, Len(portfolio_items) + 1) <= max_projects

\* C3: no selected item has an ROI below min_roi_threshold; an item is rejected
\* with the ROI rationale exactly when its ROI is strictly below the threshold
\* (an ROI equal to the threshold is not rejected for ROI); under threshold 20
\* and no other constraint the ROI 10% item is rejected for ROI and the ROI 50%
\* item is selected
C3_RoiThresholdRespected ==
    InSelection =>
        \A i \in 1 .. Len(portfolio_items) :
            LET item == portfolio_items[i]
            IN  /\ item.selected => RoiOf(item) >= min_roi_threshold * 100
                /\ (item.selection_rationale = RoiRationale)
                       <=> (Decided(i) /\ RoiOf(item) < min_roi_threshold * 100)
                /\ (/\ Decided(i)
                    /\ min_roi_threshold = 20
                    /\ ~IsSet(budget_constraint)
                    /\ ~IsSet(max_projects))
                       => /\ RoiOf(item) = 1000 =>
                                ~item.selected /\ item.selection_rationale = RoiRationale
                          /\ RoiOf(item) = 5000 => item.selected

C3_Witness ==
    /\ pc = "done"
    /\ min_roi_threshold = 20
    /\ ~IsSet(budget_constraint)
    /\ ~IsSet(max_projects)
    /\ \E i, j \in 1 .. Len(portfolio_items) :
          /\ RoiOf(portfolio_items[i]) = 1000
          /\ portfolio_items[i].selection_rationale = RoiRationale
          /\ RoiOf(portfolio_items[j]) = 5000
          /\ portfolio_items[j].selected

\* C4: every item the pass has decided is selected if and only if its ROI is at
\* least the threshold, the cost of the items selected before it plus its own
\* cost is within the budget (when set) and fewer than max_projects items (when
\* set) were selected before it; the running cost and count are those of the
\* selected items
C4_GreedyRule ==
    InSelection =>
        /\ total_cost = SelectedCostBefore(portfolio_items, sel_i)
        /\ selected_count = SelectedCountBefore(portfolio_items, sel_i)
        /\ \A i \in 1 .. Len(portfolio_items) :
              LET item == portfolio_items[i]
              IN  item.selected <=>
                      /\ Decided(i)
                      /\ RoiOf(item) >= min_roi_threshold * 100
                      /\ IsSet(budget_constraint) =>
                             SelectedCostBefore(portfolio_items, i) + ProjectCost(item)
                                 <= budget_constraint
                      /\ IsSet(max_projects) =>
                             SelectedCountBefore(portfolio_items, i) < max_projects

\* C5: the list optimize works on is ordered by priority_score descending, items
\* of equal score are in the order their use cases had in the input list, every
\* input use case is in it once, and the selection pass decides the items in
\* exactly this order
C5_SortedStable ==
    InSelection =>
        /\ Len(portfolio_items) = Len(use_cases)
        /\ \A i \in 1 .. Len(portfolio_items) :
              /\ portfolio_items[i].input_index \in 1 .. Len(use_cases)
              /\ portfolio_items[i].use_case = use_cases[portfolio_items[i].input_index]
              /\ Decided(i) <=> portfolio_items[i].selection_rationale # ""
        /\ \A i, j \in 1 .. Len(portfolio_items) :
              i < j =>
                  /\ portfolio_items[i].priority_score >= portfolio_items[j].priority_score
                  /\ portfolio_items[i].priority_score = portfolio_items[j].priority_score
                         => portfolio_items[i].input_index < portfolio_items[j].input_index

C5_Witness ==
    /\ pc = "done"
    /\ \E i, j, k \in 1 .. Len(portfolio_items) :
          /\ i < j
          /\ portfolio_items[i].priority_score = portfolio_items[j].priority_score
          /\ portfolio_items[k].priority_score > portfolio_items[i].priority_score
          /\ portfolio_items[k].input_index > portfolio_items[j].input_index

\* the rationale the first failing check of an item gives, in the order ROI
\* threshold, budget, max project count
FirstFailingCheck(its, i) ==
    IF RoiOf(its[i]) < min_roi_threshold * 100 THEN RoiRationale
    ELSE IF /\ IsSet(budget_constraint)
            /\ SelectedCostBefore(its, i) + ProjectCost(its[i]) > budget_constraint
    THEN BudgetRationale
    ELSE CountRationale

\* C6: after optimize every selected item carries the Selected rationale and
\* every item not selected carries the rationale of its first failing check, in
\* the order ROI threshold, budget, max project count; no rationale is empty
C6_FirstFailingRationale ==
    AfterOptimize =>
        \A i \in 1 .. Len(portfolio_items) :
            LET item == portfolio_items[i]
            IN  /\ item.selection_rationale # ""
                /\ item.selected => item.selection_rationale = SelectedRationale
                /\ ~item.selected =>
                       item.selection_rationale = FirstFailingCheck(portfolio_items, i)

\* C7: the composite priority score of every record lies between 0 and 100
C7_ScoreInRange ==
    probe.stage \in {"scored"} => (0 <= probe.score /\ probe.score <= 10000)

\* the table of section 4.2
CanonicalQuadrant(impact, effort) ==
    CASE impact = "High"   /\ effort = "Low"    -> <<"Quick Wins", 1>>
      [] impact = "High"   /\ effort = "Medium" -> <<"Strategic Projects", 2>>
      [] impact = "High"   /\ effort = "High"   -> <<"Major Projects", 3>>
      [] impact = "Medium" /\ effort = "Low"    -> <<"Easy Wins", 2>>
      [] impact = "Medium" /\ effort = "Medium" -> <<"Balanced Projects", 3>>
      [] impact = "Medium" /\ effort = "High"   -> <<"Resource Heavy", 4>>
      [] impact = "Low"    /\ effort = "Low"    -> <<"Fill-ins", 3>>
      [] impact = "Low"    /\ effort = "Medium" -> <<"Low Priority", 4>>
      [] impact = "Low"    /\ effort = "High"   -> <<"Avoid", 5>>

HorizonRule(effort, months, score) ==
    IF effort = "Low" /\ months <= 3 /\ score >= 5000 THEN Q1
    ELSE IF effort = "High" \/ months > 12 THEN YEAR_3
    ELSE IF effort = "Medium" THEN (IF score >= 4000 THEN YEAR_1 ELSE YEAR_3)
    ELSE YEAR_1

\* C9: the horizon of an item is the one the precedence rules give for its
\* effort, implementation_months and priority_score: Q1 exactly for Low effort,
\* at most 3 months and score >= 50; it is one of the three horizons and is the
\* same whatever slot counters are passed
C9_HorizonRule ==
    probe.stage = "placed" =>
        /\ probe.horizon \in TimeHorizon
        /\ probe.horizon =
               HorizonRule(probe.uc.effort_level, probe.uc.implementation_months, probe.score)
        /\ (probe.horizon = Q1) <=>
               /\ probe.uc.effort_level = "Low"
               /\ probe.uc.implementation_months <= 3
               /\ probe.score >= 5000

C9_Witness ==
    /\ probe.stage = "placed"
    /\ probe.uc.effort_level = "Low"
    /\ probe.uc.implementation_months = 3
    /\ probe.score = 5000
    /\ probe.horizon = Q1
    /\ probe.slots[Q1] > 0

\* the number of roadmap entries in front of position j that are in horizon h
EntriesBefore(h, j) ==
    Cardinality({i \in 1 .. (j - 1) : roadmap_items[i].time_horizon = h})

\* C10: the k-th entry (from 0) of a horizon starts 30k days (Q1), 90 + 45k days
\* (Year 1) or 365 + 90k days (Year 3) after start_date and ends
\* 30 * implementation_months days after its start; the entries follow the
\* priority order of the items; each slot counter is the number of entries of
\* its horizon, so an entry raises only its own horizon's counter, by one
C10_SlotDates ==
    pc \in {"roadmap", "done"} =>
        /\ Len(roadmap_items) = rm_i - 1
        /\ \A h \in TimeHorizon : phase_slots[h] = EntriesBefore(h, Len(roadmap_items) + 1)
        /\ \A j \in 1 .. Len(roadmap_items) :
              LET entry == roadmap_items[j]
                  k == EntriesBefore(entry.time_horizon, j)
              IN  /\ entry.use_case = items[j].use_case
                  /\ entry.time_horizon = Q1 => entry.start_date = 30 * k
                  /\ entry.time_horizon = YEAR_1 => entry.start_date = 90 + 45 * k
                  /\ entry.time_horizon = YEAR_3 => entry.start_date = 365 + 90 * k
                  /\ entry.end_date =
                         entry.start_date + 30 * entry.use_case.implementation_months

C10_Witness ==
    /\ pc = "done"
    /\ Len(roadmap_items) = 3
    /\ roadmap_items[1].time_horizon = YEAR_1
    /\ roadmap_items[2].time_horizon = YEAR_1
    /\ roadmap_items[2].start_date = 135
    /\ roadmap_items[3].time_horizon = YEAR_3
    /\ roadmap_items[3].start_date = 365

\* the portfolio positions marked selected
SelectedPositions == {p \in 1 .. Len(portfolio_items) : portfolio_items[p].selected}

\* the roadmap entries made for the use case of portfolio position p
EntriesOf(p) ==
    {j \in 1 .. Len(roadmap_items) :
        roadmap_items[j].use_case = portfolio_items[p].use_case}

\* the portfolio position an entry was made from
PositionOf(j) ==
    CHOOSE p \in 1 .. Len(portfolio_items) :
        portfolio_items[p].use_case = roadmap_items[j].use_case

\* C11: when generate_roadmap has returned, every selected portfolio item has
\* exactly one roadmap entry and an unselected item has none; the entries are in
\* descending order of priority_score, equal scores in the order of the portfolio
\* list; a portfolio whose candidates were all rejected gives the empty roadmap
C11_RoadmapOfSelected ==
    pc = "done" =>
        /\ \A p \in 1 .. Len(portfolio_items) :
              Cardinality(EntriesOf(p)) = (IF p \in SelectedPositions THEN 1 ELSE 0)
        /\ Len(roadmap_items) = Cardinality(SelectedPositions)
        /\ \A j \in 1 .. Len(roadmap_items) :
              roadmap_items[j].roi_metrics = portfolio_items[PositionOf(j)].roi_metrics
        /\ \A j, k \in 1 .. Len(roadmap_items) :
              j < k =>
                 LET a == portfolio_items[PositionOf(j)]
                     b == portfolio_items[PositionOf(k)]
                 IN  \/ a.priority_score > b.priority_score
                     \/ /\ a.priority_score = b.priority_score
                        /\ PositionOf(j) < PositionOf(k)
        /\ (SelectedPositions = {}) => (roadmap_items = <<>>)

C11_Witness ==
    /\ pc = "done"
    /\ Len(roadmap_items) = 2
    /\ Len(portfolio_items) = 3
    /\ \E p \in 1 .. 3 : ~portfolio_items[p].selected
    /\ portfolio_items[PositionOf(1)].priority_score
          = portfolio_items[PositionOf(2)].priority_score

\* the milestones that depend on the length of the project, in their order, and
\* the number of months from which each is present
OptionalMilestones ==
    <<"Requirements Complete", "Design & Architecture Complete",
      "Development Phase Complete", "Integration Testing Complete">>

MilestoneThresholds == {2, 3, 4, 6}

\* C12: for every implementation_months m >= 1 the milestones are 'Project
\* Kickoff', then the first n of the four optional milestones, n the number of
\* thresholds in {2, 3, 4, 6} at most m, then 'UAT & Validation', 'Production
\* Deployment', 'Benefits Realization Review', 4 + n in all; a Low-effort item of
\* m = 2 and score 60 placed at slot 0 is in Q1, starts at start_date and has 5
\* milestones
C12_Milestones ==
    probe.stage = "placed" =>
        LET m  == probe.uc.implementation_months
            n  == Cardinality({t \in MilestoneThresholds : t <= m})
            ms == probe.entry.milestones
        IN  /\ m >= 1
            /\ Len(ms) = 4 + n
            /\ ms[1] = "Project Kickoff"
            /\ \A k \in 1 .. n : ms[1 + k] = OptionalMilestones[k]
            /\ ms[n + 2] = "UAT & Validation"
            /\ ms[n + 3] = "Production Deployment"
            /\ ms[n + 4] = "Benefits Realization Review"
            /\ (/\ m = 2
                /\ probe.uc.effort_level = "Low"
                /\ probe.score = 6000
                /\ probe.slots[Q1] = 0)
               => (/\ probe.entry.time_horizon = Q1
                   /\ probe.entry.start_date = 0
                   /\ Len(ms) = 5)

C12_Witness ==
    /\ probe.stage = "placed"
    /\ probe.uc.implementation_months = 6
    /\ Len(probe.entry.milestones) = 8
    /\ probe.entry.milestones[5] = "Integration Testing Complete"

\* C13: a second run of generate_roadmap on the same portfolio list with the same
\* start_date, on a new generator, returns the list the first run returned: the
\* same horizons, start and end dates, milestones and phase rationales, entry for
\* entry; while the second run is in its loop its entries are those of the first
C13_RoadmapDeterministic ==
    (earlier_roadmap # <<>> /\ pc \in {"roadmap", "done"}) =>
        /\ Len(roadmap_items) <= Len(earlier_roadmap[1])
        /\ \A j \in 1 .. Len(roadmap_items) :
              LET a == earlier_roadmap[1][j]
                  b == roadmap_items[j]
              IN  /\ a.use_case = b.use_case
                  /\ a.time_horizon = b.time_horizon
                  /\ a.start_date = b.start_date
                  /\ a.end_date = b.end_date
                  /\ a.milestones = b.milestones
                  /\ a.phase_rationale = b.phase_rationale
        /\ (pc = "done") => (roadmap_items = earlier_roadmap[1])

C13_Witness ==
    /\ pc = "done"
    /\ earlier_roadmap # <<>>
    /\ Len(roadmap_items) = 3
    /\ roadmap_items[2].time_horizon = roadmap_items[3].time_horizon
    /\ roadmap_items[1].time_horizon # roadmap_items[2].time_horizon
    /\ roadmap_items[3].start_date > roadmap_items[2].start_date

\* C14: payback_months is the infinite sentinel exactly when annual_benefit <=
\* annual_cost; otherwise it is benefit_start + initial_cost / ((annual_benefit -
\* annual_cost) / 12) to one decimal (within half a tenth of the exact quotient),
\* finite and at least benefit_start = implementation_months +
\* benefit_start_month - 1
C14_Payback ==
    probe.stage = "metrics" =>
        LET uc  == probe.uc
            net == uc.annual_benefit - uc.annual_cost
            benefit_start == uc.implementation_months + uc.benefit_start_month - 1
            payback == probe.metrics.payback_months
            \* net * (exact payback in tenths of a month)
            exact_net == 10 * (benefit_start * net + 12 * uc.initial_cost)
        IN  /\ (payback = INF) <=> (uc.annual_benefit <= uc.annual_cost)
            /\ (uc.annual_benefit > uc.annual_cost) =>
                  /\ 2 * (payback * net - exact_net) <= net
                  /\ 2 * (exact_net - payback * net) <= net
                  /\ payback < INF
                  /\ payback >= 10 * benefit_start

C14_Witness ==
    /\ probe.stage = "metrics"
    /\ probe.uc.annual_benefit = 60
    /\ probe.uc.annual_cost = 30
    /\ probe.uc.initial_cost = 50
    /\ probe.uc.implementation_months = 2
    /\ probe.uc.benefit_start_month = 36
    /\ probe.metrics.payback_months = 570

\* C15: calculate_metrics returns for every valid record, degenerate amounts
\* included; when three_year_cost = initial_cost + 3 * annual_cost is 0 the basic
\* ROI is 0, and when it is positive the ROI is (three_year_benefit -
\* three_year_cost) / three_year_cost * 100 with three_year_benefit =
\* (annual_benefit / 12) * max(0, 36 - benefit_start), to the hundredth of a
\* percent held here
C15_RoiDefined ==
    probe.stage = "metrics" =>
        LET uc   == probe.uc
            cost == uc.initial_cost + 3 * uc.annual_cost
            benefit_start == uc.implementation_months + uc.benefit_start_month - 1
            months == IF 36 - benefit_start > 0 THEN 36 - benefit_start ELSE 0
            roi  == probe.metrics.basic_roi_percent
            \* 12 * (three_year_benefit - three_year_cost), in K$
            gain12 == uc.annual_benefit * months - 12 * cost
        IN  /\ probe.metrics.three_year_cost = cost
            /\ 12 * probe.metrics.three_year_benefit <= uc.annual_benefit * months * 100000
            /\ 12 * (probe.metrics.three_year_benefit + 1) > uc.annual_benefit * months * 100000
            /\ (cost = 0) => (roi = 0)
            /\ (cost > 0) =>
                  /\ roi * 12 * cost <= gain12 * 10000
                  /\ (roi + 1) * 12 * cost > gain12 * 10000
            /\ roi \in -10000 .. 10000000

C15_Witness ==
    /\ probe.stage = "metrics"
    /\ probe.uc.initial_cost = 0
    /\ probe.uc.annual_cost = 0
    /\ probe.uc.annual_benefit = 400
    /\ probe.metrics.three_year_benefit > 0
    /\ probe.metrics.basic_roi_percent = 0

\* the record of the end-to-end scenario, amounts in K$
IsScenarioRecord(uc) ==
    /\ uc.initial_cost = 150
    /\ uc.annual_cost = 30
    /\ uc.annual_benefit = 400
    /\ uc.implementation_months = 4
    /\ uc.benefit_start_month = 1
    /\ uc.risk_level = "Low"

\* C16: for the record 150000 / 30000 / 400000, 4 months, benefit_start_month 1,
\* risk Low, benefit_start is 4, the benefit flows in the 32 months 4..35,
\* three_year_cost is 240000, three_year_benefit is 1,066,666.67 to the cent,
\* basic_roi_percent is 344.44 to the hundredth and payback_months is 8.9
C16_Scenario ==
    (probe.stage = "metrics" /\ IsScenarioRecord(probe.uc)) =>
        LET uc == probe.uc
            with_benefit == {t \in 0 .. 35 : CashFlow12(uc, t) > CashFlow12(uc, 1)}
        IN  /\ BenefitStart(uc) = 4
            /\ with_benefit = 4 .. 35
            /\ Cardinality(with_benefit) = 32
            /\ probe.metrics.three_year_cost = 240
            /\ probe.metrics.three_year_benefit \in {106666666, 106666667}
            /\ probe.metrics.basic_roi_percent = 34444
            /\ probe.metrics.payback_months = 89

C16_Witness ==
    /\ probe.stage = "metrics"
    /\ IsScenarioRecord(probe.uc)
    /\ probe.uc.effort_level = "Medium"
    /\ probe.uc.impact_level = "High"
    /\ probe.metrics.payback_months = 89

\* C17: when the NPV is not negative the risk-adjusted value is at most the NPV
\* for the risk levels Medium and High; for Low it is NPV * 0.95 rounded to the
\* cent, that is NPV less a twentieth of it within half a cent
C17_RiskAdjusted ==
    probe.stage = "metrics" =>
        LET npv == probe.metrics.npv
            rav == probe.metrics.risk_adjusted_value
            risk == probe.uc.risk_level
        IN  /\ (npv >= 0 /\ risk \in {"Medium", "High"}) => (rav <= npv)
            /\ (risk = "Low") =>
                  /\ 20 * (npv - rav) - npv <= 10
                  /\ npv - 20 * (npv - rav) <= 10

C17_Witness ==
    /\ probe.stage = "metrics"
    /\ probe.uc.risk_level = "Low"
    /\ probe.metrics.npv > 100000
    /\ probe.metrics.npv % 20 # 0
    /\ probe.metrics.risk_adjusted_value < probe.metrics.npv

RECURSIVE SumDiscount(_, _)
\* the discount factors of the months from .. to, summed
SumDiscount(from, to) ==
    IF from > to THEN 0 ELSE DiscountFactor[from + 1] + SumDiscount(from + 1, to)

\* the amounts a probe record may carry
ProbeBenefits == {f.annual_benefit : f \in ProbeForms}

ProbeInitialCosts == {f.initial_cost : f \in ProbeForms}

\* C18: of two records that differ only in annual_benefit the one with the
\* larger annual_benefit has an NPV not smaller, and of two that differ only in
\* initial_cost the one with the larger initial_cost has an NPV not larger; the
\* NPV is the discounted sum of 36 monthly flows, -initial_cost in month 0,
\* -annual_cost/12 in every month, +annual_benefit/12 in every month from
\* benefit_start on, every discount factor positive
C18_NpvMonotone ==
    probe.stage = "metrics" =>
        LET uc == probe.uc
            benefit_start == uc.implementation_months + uc.benefit_start_month - 1
            \* 12 * 10^5 * NPV in K$, by kind of flow
            closed == 0 - 12 * uc.initial_cost * DiscountFactor[1]
                      - uc.annual_cost * SumDiscount(0, 35)
                      + uc.annual_benefit * SumDiscount(benefit_start, 35)
        IN  /\ \A ab \in ProbeBenefits :
                  ab >= uc.annual_benefit =>
                     calculate_npv([uc EXCEPT !.annual_benefit = ab]) >= probe.metrics.npv
            /\ \A ic \in ProbeInitialCosts :
                  ic >= uc.initial_cost =>
                     calculate_npv([uc EXCEPT !.initial_cost = ic]) <= probe.metrics.npv
            /\ \A t \in 0 .. 35 : DiscountFactor[t + 1] > 0
            /\ 2 * (12 * probe.metrics.npv - closed) <= 12
            /\ 2 * (closed - 12 * probe.metrics.npv) <= 12

C18_Witness ==
    /\ probe.stage = "metrics"
    /\ probe.uc.annual_benefit = 60
    /\ probe.uc.initial_cost = 50
    /\ probe.uc.implementation_months = 4
    /\ calculate_npv([probe.uc EXCEPT !.annual_benefit = 400]) > probe.metrics.npv
    /\ calculate_npv([probe.uc EXCEPT !.initial_cost = 150]) < probe.metrics.npv

\* C19: _get_quadrant returns no label and rank for an (impact, effort) key that
\* is not in the quadrant table: a call on such a key ends in an error, so no
\* call on it is ever seen to have returned
C19_UnknownKeyFailsFast ==
    probe.stage = "quadrant" =>
        (probe.impact \in Levels /\ probe.effort \in Levels)

\* a step of calculate_batch, optimize, generate_roadmap or
\* get_dependencies_order: every step but a capture operation
PipelineStep == pc' # "capture"

\* every derived item carries the record of the use-case list it was made from
DerivedCarryInputs ==
    /\ \A i \in 1 .. Len(roi_metrics) : roi_metrics[i].use_case_id = use_cases[i].id
    /\ \A p \in 1 .. Len(portfolio_items) :
          /\ portfolio_items[p].use_case = use_cases[portfolio_items[p].input_index]
          /\ portfolio_items[p].roi_metrics = roi_metrics[portfolio_items[p].input_index]
    /\ \A j \in 1 .. Len(roadmap_items) :
          \E i \in 1 .. Len(use_cases) :
              /\ roadmap_items[j].use_case = use_cases[i]
              /\ roadmap_items[j].roi_metrics = roi_metrics[i]
    /\ \A j \in 1 .. Len(ordered) :
          \E k \in 1 .. Len(roadmap_items) : ordered[j] = roadmap_items[k]

C20_Step ==
    PipelineStep =>
        /\ use_cases' = use_cases
        /\ (pc \in {"select", "optimized", "roadmap", "done"}) =>
              roi_metrics' = roi_metrics
        /\ (pc \in {"optimized", "roadmap", "done"}) =>
              portfolio_items' = portfolio_items
        /\ (pc = "done" /\ pc' \in {"ordered", "order_error"}) =>
              roadmap_items' = roadmap_items
        /\ DerivedCarryInputs'

-----------------------------------------------------------------------------
(* C21: after any sequence of capture operations of a session (chat, manual  *)
(* add, load sample, extract from chat, remove, reset all) the ids of the    *)
(* records of the session's use-case list are pairwise distinct, so that no  *)
(* record is listed twice.                                                    *)
C21_IdsDistinct ==
    \A i, j \in 1 .. Len(use_cases) :
        i # j => use_cases[i].id # use_cases[j].id

-----------------------------------------------------------------------------
(* C22: the per-horizon rollups of get_roadmap_summary partition the         *)
(* selection. Once the roadmap of a portfolio is generated, every roadmap    *)
(* entry is in the group of exactly one of the three horizons, the three     *)
(* counts add up to the count of get_selection_summary, the three            *)
(* investments to its total_investment, which is the sum of initial_cost +   *)
(* 3 * annual_cost over the selected items, and the three NPV totals to its  *)
(* total_npv.                                                                 *)
RoadmapGenerated == pc \in {"done", "ordered", "order_error"}

HorizonTotal(summary, field) ==
    summary[Q1][field] + summary[YEAR_1][field] + summary[YEAR_3][field]

C22_RollupsPartition ==
    RoadmapGenerated =>
        LET by_horizon == get_roadmap_summary(roadmap_items)
            selection == get_selection_summary(portfolio_items)
            grouped == get_roadmap_by_horizon(roadmap_items)
        IN  /\ DOMAIN by_horizon = {Q1, YEAR_1, YEAR_3}
            /\ \A j \in 1 .. Len(roadmap_items) :
                   Cardinality({h \in DOMAIN grouped :
                       \E k \in 1 .. Len(grouped[h]) :
                           grouped[h][k] = roadmap_items[j]}) = 1
            /\ HorizonTotal(by_horizon, "count") = Len(roadmap_items)
            /\ HorizonTotal(by_horizon, "count") = selection.count
            /\ HorizonTotal(by_horizon, "total_investment") = selection.total_investment
            /\ selection.total_investment =
                   SumSeq([p \in 1 .. Len(portfolio_items) |->
                       IF portfolio_items[p].selected
                       THEN portfolio_items[p].use_case.initial_cost
                            + 3 * portfolio_items[p].use_case.annual_cost
                       ELSE 0])
            /\ HorizonTotal(by_horizon, "total_npv") = selection.total_npv

\* a roadmap over two horizons with a selected project that has running costs
C22_Witness ==
    /\ pc = "done"
    /\ Len(roadmap_items) >= 2
    /\ \E j, k \in 1 .. Len(roadmap_items) :
           roadmap_items[j].time_horizon # roadmap_items[k].time_horizon
    /\ \E j \in 1 .. Len(roadmap_items) : roadmap_items[j].use_case.annual_cost > 0
    /\ \E p \in 1 .. Len(portfolio_items) : ~portfolio_items[p].selected

-----------------------------------------------------------------------------
(* The dependency relation of a list of roadmap items, over positions *)

\* item i names item j in its dependencies list
NamesItem(its, i, j) ==
    \E d \in 1 .. Len(its[i].use_case.dependencies) :
        its[i].use_case.dependencies[d] = its[j].use_case.name

DirectDependencies(its) ==
    {e \in (1 .. Len(its)) \X (1 .. Len(its)) : NamesItem(its, e[1], e[2])}

RECURSIVE Closure(_, _)
Closure(R, k) ==
    IF k = 0 THEN R
    ELSE Closure(R \cup {<<q[1][1], q[2][2]>> : q \in {q \in R \X R : q[1][2] = q[2][1]}},
                 k - 1)

TransitiveDependencies(its) == Closure(DirectDependencies(its), Len(its))

Acyclic(its) == \A i \in 1 .. Len(its) : <<i, i>> \notin TransitiveDependencies(its)

DistinctNames(its) ==
    \A i, j \in 1 .. Len(its) : i # j => its[i].use_case.name # its[j].use_case.name

\* neither names an item of the list nor is named by one
Unrelated(its, i) ==
    \A j \in 1 .. Len(its) : ~NamesItem(its, i, j) /\ ~NamesItem(its, j, i)

\* the position in out of the item that was at position i of the probed list
OutputPosition(out, i) == CHOOSE q \in 1 .. Len(out) : out[q].use_case.id = i

\* the list with the dependency names of no item taken out
WithoutUnmatched(its) ==
    [i \in 1 .. Len(its) |->
        [its[i] EXCEPT !.use_case.dependencies =
            SelectSeq(@, LAMBDA d : \E j \in 1 .. Len(its) : its[j].use_case.name = d)]]

IdsOf(its) == [i \in 1 .. Len(its) |-> its[i].use_case.id]

-----------------------------------------------------------------------------
(* C24: get_dependencies_order terminates on every input, an item that names *)
(* itself and items that depend on each other in a cycle included: it        *)
(* returns a list and raises nothing.                                         *)
C24_OrderTerminates ==
    probe.stage = "sorted" => ~probe.result.raised

-----------------------------------------------------------------------------
(* C25: the start date of a roadmap entry lies in the window of its horizon, *)
(* whatever the number of entries the horizon already has: a Q1 entry starts *)
(* less than 90 days after start_date, a Year 1 entry from day 90 on and     *)
(* before day 365, a 3-Year entry from day 365 on and before day 1095.       *)
C25_StartInHorizon ==
    probe.stage = "dated" =>
        LET entry == probe.entry
        IN  /\ entry.time_horizon = Q1 => 0 <= entry.start_date /\ entry.start_date < 90
            /\ entry.time_horizon = YEAR_1 =>
                   90 <= entry.start_date /\ entry.start_date < 365
            /\ entry.time_horizon = YEAR_3 =>
                   365 <= entry.start_date /\ entry.start_date < 1095

-----------------------------------------------------------------------------
(* C26: for every base NPV, positive, zero or negative, the risk-adjusted    *)
(* value does not grow with the risk level: the value at High risk is at     *)
(* most the value at Medium risk, which is at most the value at Low risk.    *)
C26_RiskOrdering ==
    probe.stage = "metrics" =>
        LET npv == probe.metrics.npv
        IN  /\ calculate_risk_adjusted_value(npv, "High")
                   <= calculate_risk_adjusted_value(npv, "Medium")
            /\ calculate_risk_adjusted_value(npv, "Medium")
                   <= calculate_risk_adjusted_value(npv, "Low")

-----------------------------------------------------------------------------
(* C27: for every list of use cases, ids not assumed distinct, and the       *)
(* metrics calculate_batch produces for it, optimize builds exactly one      *)
(* portfolio item per input use case, none dropped and none duplicated, and  *)
(* the roi_metrics of each item are the ones computed from its own record.   *)
C27_OwnMetrics ==
    pc = "select" =>
        /\ Len(portfolio_items) = Len(use_cases)
        /\ \A i \in 1 .. Len(use_cases) :
               Cardinality({p \in 1 .. Len(portfolio_items) :
                               portfolio_items[p].input_index = i}) = 1
        /\ \A p \in 1 .. Len(portfolio_items) :
               /\ portfolio_items[p].input_index \in 1 .. Len(use_cases)
               /\ portfolio_items[p].use_case = use_cases[portfolio_items[p].input_index]
               /\ portfolio_items[p].roi_metrics
                      = calculate_metrics(portfolio_items[p].use_case)

-----------------------------------------------------------------------------
(* C28: derived artifacts never go stale. After any sequence of session      *)
(* operations followed by a complete rerun of the application (analysis tab, *)
(* then roadmap tab) the session's roi_metrics and portfolio_items hold      *)
(* exactly the use cases that are in the session's use-case list, and the    *)
(* roadmap has no entry for a use case that is not in the list, the removal  *)
(* of the last remaining use case included.                                  *)
InSession(uc) == \E i \in 1 .. Len(use_cases) : use_cases[i] = uc

C28_NoStaleArtifacts ==
    pc = "done" =>
        /\ Len(roi_metrics) = Len(use_cases)
        /\ \A i \in 1 .. Len(roi_metrics) : roi_metrics[i].use_case_id = use_cases[i].id
        /\ Len(portfolio_items) = Len(use_cases)
        /\ \A p \in 1 .. Len(portfolio_items) : InSession(portfolio_items[p].use_case)
        /\ \A i \in 1 .. Len(use_cases) :
               \E p \in 1 .. Len(portfolio_items) : portfolio_items[p].use_case = use_cases[i]
        /\ \A r \in 1 .. Len(roadmap_items) : InSession(roadmap_items[r].use_case)

-----------------------------------------------------------------------------
(* C29: on every input on which it returns, get_dependencies_order returns a *)
(* permutation of its input: every input item is in the output exactly once, *)
(* none lost and none duplicated, two items of one use-case name included.   *)
C29_OrderPermutation ==
    (probe.stage = "sorted" /\ ~probe.result.raised) =>
        /\ Len(probe.result.ordered) = Len(probe.its)
        /\ \A i \in 1 .. Len(probe.its) :
               Cardinality({q \in 1 .. Len(probe.result.ordered) :
                               probe.result.ordered[q] = probe.its[i]}) = 1

-----------------------------------------------------------------------------
(* C30: greedy admission only skips an item in favour of a cheaper one. In   *)
(* the selection pass, with non-negative costs, when an item is rejected for *)
(* exceeding the budget and an item later in score order is selected, the    *)
(* project_cost of the later item is strictly smaller than that of the       *)
(* rejected item; and once an item has been rejected for the max project     *)
(* count, no later item is selected.                                          *)
CostOf(item) == item.use_case.initial_cost + 3 * item.use_case.annual_cost

C30_SkipsOnlyForCheaper ==
    \A i, j \in 1 .. Len(portfolio_items) :
        (i < j /\ Decided(j)) =>
            /\ (/\ ~portfolio_items[i].selected
                /\ portfolio_items[i].selection_rationale = BudgetRationale
                /\ portfolio_items[j].selected)
                   => CostOf(portfolio_items[j]) < CostOf(portfolio_items[i])
            /\ (/\ ~portfolio_items[i].selected
                /\ portfolio_items[i].selection_rationale = CountRationale)
                   => ~portfolio_items[j].selected

\* the pass has returned with an item rejected for the budget between two
\* selected items
C30_Witness ==
    /\ pc = "optimized"
    /\ \E h, i, j \in 1 .. Len(portfolio_items) :
           /\ h < i /\ i < j
           /\ portfolio_items[h].selected
           /\ ~portfolio_items[i].selected
           /\ portfolio_items[i].selection_rationale = BudgetRationale
           /\ portfolio_items[j].selected
           /\ CostOf(portfolio_items[h]) >= 0
           /\ CostOf(portfolio_items[j]) >= 0

====
